---- MODULE Spec2Model ----
(***************************************************************************)
(* Model of ai_secrets.storage.SecretsStore: a keyring-backed secrets      *)
(* store (the "vault") with a JSON side file listing the secret names      *)
(* (the "index").                                                          *)
(*                                                                         *)
(* Strings are sequences of atoms.  An atom is the whitespace character    *)
(* " ", a path separator "/" or "\\", the underscore "_", or a word that   *)
(* contains none of these.  str.strip and str.replace are computed on      *)
(* that representation.                                                    *)
(***************************************************************************)
EXTENDS Integers, Sequences, FiniteSets, TLC

(***************************************************************************)
(* Bounds.                                                                 *)
(***************************************************************************)
NumWords == 1        \* distinct secret names after trimming
NumValues == 1       \* distinct non-blank secret values
MaxIndex == 2        \* longest name list the index grows to

Space == " "
Word == <<"A", "B", "C", "D">>
Digit == <<"1", "2", "3", "4">>

Words == {Word[i] : i \in 1..NumWords}

\* the names callers pass: empty, whitespace-only, bare words, and one word
\* with surrounding whitespace
Names ==
    {<<>>, <<Space>>, <<Space, Word[1], Space>>} \cup {<<w>> : w \in Words}

\* the values callers pass: empty, whitespace-only, and ordinary ones
Values == {<<>>, <<Space>>} \cup {<<Digit[i]>> : i \in 1..NumValues}

\* Python's None, as returned by keyring.get_password for a missing entry
None == <<"None">>

(***************************************************************************)
(* str.strip() and str.replace(old, new)                                   *)
(***************************************************************************)
RECURSIVE lstrip(_)
lstrip(s) ==
    IF s # <<>> /\ Head(s) = Space THEN lstrip(Tail(s)) ELSE s

RECURSIVE rstrip(_)
rstrip(s) ==
    IF s # <<>> /\ s[Len(s)] = Space THEN rstrip(SubSeq(s, 1, Len(s) - 1)) ELSE s

strip(s) == rstrip(lstrip(s))

replace(s, old, new) == [i \in 1..Len(s) |-> IF s[i] = old THEN new ELSE s[i]]

\* `x in names` and names.count(x) of a Python list
In(x, names) == \E i \in 1..Len(names) : names[i] = x

count(names, x) == Cardinality({i \in 1..Len(names) : names[i] = x})

\* list.remove(x): removes the first occurrence
remove(names, x) ==
    LET i == CHOOSE j \in 1..Len(names) :
                 names[j] = x /\ \A k \in 1..(j - 1) : names[k] # x
    IN SubSeq(names, 1, i - 1) \o SubSeq(names, i + 1, Len(names))

(***************************************************************************)
(* SecretsStore.__init__                                                   *)
(***************************************************************************)
DefaultServiceName == <<"ai-secrets">>

\* `not service_name or not service_name.strip()` is false
ValidServiceName(service_name) ==
    service_name # <<>> /\ strip(service_name) # <<>>

safe_service_name(service_name) ==
    replace(replace(service_name, "/", "_"), "\\", "_")

metadata_file(service_name) ==
    <<"metadata_">> \o safe_service_name(service_name) \o <<".json">>

SecretsStore(service_name) ==
    [service_name |-> strip(service_name),
     metadata_file |-> metadata_file(strip(service_name))]

\* the namespaces callers construct stores for
ServiceInputs ==
    {<<>>, <<Space>>, DefaultServiceName, <<Space>> \o DefaultServiceName}

\* two more namespaces, apart in a path separator only
NamespaceInputs == {<<"a", "/", "b">>, <<"a", "_", "b">>}

Services ==
    {strip(s) : s \in {t \in ServiceInputs \cup NamespaceInputs : ValidServiceName(t)}}

Paths == {metadata_file(s) : s \in Services}

\* the names that two concurrent set calls store
ProcNames == <<<<Word[1]>>, <<Word[2]>>>>

Keys == {strip(n) : n \in Names \cup {ProcNames[i] : i \in DOMAIN ProcNames}} \ {<<>>}

(***************************************************************************)
(* State.                                                                  *)
(*   vault  keyring: (service, key) -> value, or None when no entry        *)
(*   files  file system: path of an index document -> its content          *)
(*   store  the SecretsStore object in use (service_name, metadata_file)   *)
(*   last   the most recent call: operation, arguments, outcome (returned  *)
(*          value or raised error) and the keyring / file-system calls it  *)
(*          made, in order                                                 *)
(*   ledger what the caller has asked for so far (history, not read by     *)
(*          the store): per name the value of the latest set that          *)
(*          returned, cleared by a delete that returned true; clean is     *)
(*          false once a set or delete has raised a backend or file error  *)
(*   procs  the set calls of concurrent processes: per process the step it *)
(*          takes next, the value it sets and the names it has loaded      *)
(*   cli    the most recent command of the command line, or script run:    *)
(*          its arguments, its exit code and what it printed               *)
(*   perms  permissions under the base directory: the process umask, the   *)
(*          mode of the directory and of the index file, and the step and  *)
(*          the names of the index write in progress                       *)
(***************************************************************************)
VARIABLES vault, files, store, last, ledger, procs, cli, perms

vars == <<vault, files, store, last, ledger, procs, cli, perms>>

(***************************************************************************)
(* Content of an index document.  kind is                                  *)
(*   "absent"        the file does not exist                               *)
(*   "list"          {"secrets": [names]}                                  *)
(*   "dict"          {"secrets": {name: ...}}, the legacy form             *)
(*   "scalar"        a JSON object whose "secrets" is neither list nor     *)
(*                   object, e.g. {"secrets": 5}                           *)
(*   "nokey"         a JSON object without "secrets", e.g. {}              *)
(*   "nonobject"     JSON whose top level is not an object, e.g. [1]       *)
(*   "invalid_json"  text json.loads rejects, e.g. "not json{" or the      *)
(*                   prefix left by an interrupted write                   *)
(***************************************************************************)
Doc(kind, names) == [kind |-> kind, names |-> names]

Absent == Doc("absent", <<>>)

\* variant: the names are written in the opposite order
dumps_reversed(names) ==
    Doc("list", [i \in 1..Len(names) |-> names[Len(names) + 1 - i]])

\* what json.dumps({"secrets": names}, indent=2) puts in the file
dumps(names) == Doc("list", names)

(***************************************************************************)
(* keyring                                                                 *)
(***************************************************************************)
set_password(v, service, key, value) == [v EXCEPT ![<<service, key>>] = value]

get_password(v, service, key) == v[<<service, key>>]

delete_password(v, service, key) == [v EXCEPT ![<<service, key>>] = None]

(***************************************************************************)
(* SecretsStore._load_names: [status, error, names, trace]; error is the   *)
(* message of the exception raised ("" when none is)                       *)
(***************************************************************************)
NoError == ""

InvalidJson == "Invalid JSON in metadata file"

ReadFailed == "Failed to read metadata file"

NoAttribute == "object has no attribute 'get'"

\* the message that goes with the exception type in _load_names
load_error(status) ==
    CASE status = "ValueError"     -> InvalidJson
      [] status = "OSError"        -> ReadFailed
      [] status = "AttributeError" -> NoAttribute
      [] OTHER                     -> NoError

Loaded(status, names, trace) ==
    [status |-> status, error |-> load_error(status), names |-> names, trace |-> trace]

\* variant: text that is not JSON is read as an empty list
parse_names_lenient(doc) ==
    CASE doc.kind = "invalid_json" -> Loaded("ok", <<>>, <<>>)
      [] doc.kind = "nonobject"    -> Loaded("AttributeError", <<>>, <<>>)
      [] doc.kind = "dict"         -> Loaded("ok", doc.names, <<>>)
      [] doc.kind = "list"         -> Loaded("ok", doc.names, <<>>)
      [] doc.kind = "scalar"       -> Loaded("ok", <<>>, <<>>)
      [] doc.kind = "nokey"        -> Loaded("ok", <<>>, <<>>)

\* variant: only the sequence form of `secrets` is understood
parse_names_nodict(doc) ==
    CASE doc.kind = "invalid_json" -> Loaded("ValueError", <<>>, <<>>)
      [] doc.kind = "nonobject"    -> Loaded("AttributeError", <<>>, <<>>)
      [] doc.kind = "dict"         -> Loaded("ok", <<>>, <<>>)
      [] doc.kind = "list"         -> Loaded("ok", doc.names, <<>>)
      [] doc.kind = "scalar"       -> Loaded("ok", <<>>, <<>>)
      [] doc.kind = "nokey"        -> Loaded("ok", <<>>, <<>>)

\* json.loads(text), data.get("secrets", []) and the isinstance tests
parse_names(doc) ==
    CASE doc.kind = "invalid_json" -> Loaded("ValueError", <<>>, <<>>)
      [] doc.kind = "nonobject"    -> Loaded("AttributeError", <<>>, <<>>)
      [] doc.kind = "dict"         -> Loaded("ok", doc.names, <<>>)
      [] doc.kind = "list"         -> Loaded("ok", doc.names, <<>>)
      [] doc.kind = "scalar"       -> Loaded("ok", <<>>, <<>>)
      [] doc.kind = "nokey"        -> Loaded("ok", <<>>, <<>>)

_load_names(st, fs, fault) ==
    IF fs[st.metadata_file].kind = "absent"
    THEN Loaded("ok", <<>>, <<"exists">>)
    ELSE IF fault = "read_text"
    THEN Loaded("OSError", <<>>, <<"exists", "read_text">>)
    ELSE LET r == parse_names(fs[st.metadata_file])
         IN Loaded(r.status, r.names, <<"exists", "read_text">>)

(***************************************************************************)
(* SecretsStore._save_names: [status, files, trace]                        *)
(***************************************************************************)
MkdirFailed == "Failed to create directory"

WriteFailed == "Failed to write metadata file"

\* _setup_dirs raises its own message; write_text and chmod share one
save_error(status, trace) ==
    IF status = "ok" THEN NoError
    ELSE IF trace = <<"mkdir">> THEN MkdirFailed ELSE WriteFailed

Saved(status, fs, trace) ==
    [status |-> status, error |-> save_error(status, trace), files |-> fs, trace |-> trace]

_save_names(st, fs, names, fault) ==
    CASE fault = "mkdir" ->
            Saved("OSError", fs, <<"mkdir">>)
      [] fault = "write_open" ->     \* open() fails: nothing is touched
            Saved("OSError", fs, <<"mkdir", "write_text">>)
      [] fault = "write_partial" ->  \* fails after open() truncated the file
            Saved("OSError",
                  [fs EXCEPT ![st.metadata_file] = Doc("invalid_json", <<>>)],
                  <<"mkdir", "write_text">>)
      [] fault = "chmod" ->
            Saved("OSError",
                  [fs EXCEPT ![st.metadata_file] = dumps(names)],
                  <<"mkdir", "write_text", "chmod">>)
      [] OTHER ->
            Saved("ok",
                  [fs EXCEPT ![st.metadata_file] = dumps(names)],
                  <<"mkdir", "write_text", "chmod">>)

(***************************************************************************)
(* Outcome of a public method: status is "ok" or the exception raised,     *)
(* ret the returned value, trace the keyring and file-system calls made.   *)
(***************************************************************************)
Result(status, error, ret, trace, v, fs) ==
    [status |-> status, error |-> error, ret |-> ret, trace |-> trace,
     vault |-> v, files |-> fs]

\* a call that returns ret
Outcome(status, ret, trace, v, fs) == Result(status, NoError, ret, trace, v, fs)

\* a call that raises status(error)
Fail(status, error, trace, v, fs) == Result(status, error, None, trace, v, fs)

NameEmpty == "Secret name cannot be empty"

ValueEmpty == "Secret value cannot be empty"

ServiceNameEmpty == "service_name cannot be empty"

StoreFailed == "Failed to store secret in keyring"

RetrieveFailed == "Failed to retrieve secret from keyring"

DeleteFailed == "Failed to delete secret from keyring"

\* variant: only the empty name is refused
ValidName_nostrip(name) == name # <<>>

\* `not name or not name.strip()` is false
ValidName(name) == name # <<>> /\ strip(name) # <<>>

\* `not value` is false
ValidValue(value) == value # <<>>

\* the key the keyring calls use, and the entry the index keeps
vault_key(name) == strip(name)

index_entry(name) == name

(***************************************************************************)
(* SecretsStore.get                                                        *)
(***************************************************************************)
\* variant: a name the index does not list is reported absent
get_indexed(st, v, fs, name, fault) ==
    IF ~ValidName(name)
    THEN Fail("ValueError", NameEmpty, <<>>, v, fs)
    ELSE LET l == _load_names(st, fs, fault)
         IN IF l.status # "ok"
            THEN Fail(l.status, l.error, l.trace, v, fs)
            ELSE IF ~In(index_entry(name), l.names)
            THEN Outcome("ok", None, l.trace, v, fs)
            ELSE IF fault = "get_password"
            THEN Fail("OSError", RetrieveFailed, l.trace \o <<"get_password">>, v, fs)
            ELSE Outcome("ok", get_password(v, st.service_name, vault_key(name)),
                         l.trace \o <<"get_password">>, v, fs)

\* variant: a failed keyring read is reported as no entry
get_swallow(st, v, fs, name, fault) ==
    IF ~ValidName(name)
    THEN Fail("ValueError", NameEmpty, <<>>, v, fs)
    ELSE IF fault = "get_password"
    THEN Outcome("ok", None, <<"get_password">>, v, fs)
    ELSE Outcome("ok", get_password(v, st.service_name, vault_key(name)),
                 <<"get_password">>, v, fs)

get(st, v, fs, name, fault) ==
    IF ~ValidName(name)
    THEN Fail("ValueError", NameEmpty, <<>>, v, fs)
    ELSE IF fault = "get_password"
    THEN Fail("OSError", RetrieveFailed, <<"get_password">>, v, fs)
    ELSE Outcome("ok", get_password(v, st.service_name, vault_key(name)),
                 <<"get_password">>, v, fs)

(***************************************************************************)
(* SecretsStore.set                                                        *)
(***************************************************************************)
\* variant: the name is appended without the membership test
set_index_append(st, v, fs, name, fault) ==
    LET l == _load_names(st, fs, fault)
    IN IF l.status # "ok"
       THEN Fail(l.status, l.error, l.trace, v, fs)
       ELSE LET s == _save_names(st, fs, Append(l.names, index_entry(name)), fault)
            IN Result(s.status, s.error, None, l.trace \o s.trace, v, s.files)

\* variant: an index that cannot be loaded is started afresh
set_index_repair(st, v, fs, name, fault) ==
    LET l == _load_names(st, fs, fault)
        names == IF l.status = "ok" THEN l.names ELSE <<>>
    IN IF In(index_entry(name), names)
       THEN Outcome("ok", None, l.trace, v, fs)
       ELSE LET s == _save_names(st, fs, Append(names, index_entry(name)), fault)
            IN Result(s.status, s.error, None, l.trace \o s.trace, v, s.files)

\* variant: the index is saved again when the name is already listed
set_index_rewrite(st, v, fs, name, fault) ==
    LET l == _load_names(st, fs, fault)
    IN IF l.status # "ok"
       THEN Fail(l.status, l.error, l.trace, v, fs)
       ELSE LET s == _save_names(st, fs,
                                 IF In(index_entry(name), l.names) THEN l.names
                                 ELSE Append(l.names, index_entry(name)), fault)
            IN Result(s.status, s.error, None, l.trace \o s.trace, v, s.files)

\* variant: a name that is not listed is put in front of the others
set_index_front(st, v, fs, name, fault) ==
    LET l == _load_names(st, fs, fault)
    IN IF l.status # "ok"
       THEN Fail(l.status, l.error, l.trace, v, fs)
       ELSE IF In(index_entry(name), l.names)
       THEN Outcome("ok", None, l.trace, v, fs)
       ELSE LET s == _save_names(st, fs, <<index_entry(name)>> \o l.names, fault)
            IN Result(s.status, s.error, None, l.trace \o s.trace, v, s.files)

\* lines 105-108: the index after the vault write
set_index(st, v, fs, name, fault) ==
    LET l == _load_names(st, fs, fault)
    IN IF l.status # "ok"
       THEN Fail(l.status, l.error, l.trace, v, fs)
       ELSE IF In(index_entry(name), l.names)
       THEN Outcome("ok", None, l.trace, v, fs)
       ELSE LET s == _save_names(st, fs, Append(l.names, index_entry(name)), fault)
            IN Result(s.status, s.error, None, l.trace \o s.trace, v, s.files)

\* variant: the index is updated before the vault write is attempted
set_index_first(st, v, fs, name, value, fault) ==
    IF ~ValidName(name)
    THEN Fail("ValueError", NameEmpty, <<>>, v, fs)
    ELSE IF ~ValidValue(value)
    THEN Fail("ValueError", ValueEmpty, <<>>, v, fs)
    ELSE LET r == set_index(st, v, fs, name, fault)
         IN IF r.status # "ok"
            THEN r
            ELSE IF fault = "set_password"
            THEN Fail("OSError", StoreFailed, r.trace \o <<"set_password">>, v, r.files)
            ELSE IF fault = "set_password_stored"
            THEN Fail("OSError", StoreFailed, r.trace \o <<"set_password">>,
                      set_password(v, st.service_name, vault_key(name), value), r.files)
            ELSE Result("ok", NoError, None, r.trace \o <<"set_password">>,
                        set_password(v, st.service_name, vault_key(name), value), r.files)

set(st, v, fs, name, value, fault) ==
    IF ~ValidName(name)
    THEN Fail("ValueError", NameEmpty, <<>>, v, fs)
    ELSE IF ~ValidValue(value)
    THEN Fail("ValueError", ValueEmpty, <<>>, v, fs)
    ELSE IF fault = "set_password"          \* the backend raised, nothing stored
    THEN Fail("OSError", StoreFailed, <<"set_password">>, v, fs)
    ELSE IF fault = "set_password_stored"   \* the backend raised after storing
    THEN Fail("OSError", StoreFailed, <<"set_password">>,
              set_password(v, st.service_name, vault_key(name), value), fs)
    ELSE LET r == set_index(st, set_password(v, st.service_name, vault_key(name), value),
                            fs, name, fault)
         IN Result(r.status, r.error, r.ret, <<"set_password">> \o r.trace,
                   r.vault, r.files)

(***************************************************************************)
(* SecretsStore.delete                                                     *)
(***************************************************************************)
\* variant: the name is left in the index
delete_index_keep(st, v, fs, name, fault) ==
    LET l == _load_names(st, fs, fault)
    IN IF l.status # "ok"
       THEN Fail(l.status, l.error, l.trace, v, fs)
       ELSE Outcome("ok", TRUE, l.trace, v, fs)

\* lines 154-158: the index after the vault removal
delete_index(st, v, fs, name, fault) ==
    LET l == _load_names(st, fs, fault)
    IN IF l.status # "ok"
       THEN Fail(l.status, l.error, l.trace, v, fs)
       ELSE IF ~In(index_entry(name), l.names)
       THEN Outcome("ok", TRUE, l.trace, v, fs)
       ELSE LET s == _save_names(st, fs, remove(l.names, index_entry(name)), fault)
            IN Result(s.status, s.error, IF s.status = "ok" THEN TRUE ELSE None,
                      l.trace \o s.trace, v, s.files)

\* variant: the removal is attempted without the existence test
delete_unchecked(st, v, fs, name, fault) ==
    IF ~ValidName(name)
    THEN Fail("ValueError", NameEmpty, <<>>, v, fs)
    ELSE IF fault = "delete_password"
    THEN Fail("OSError", DeleteFailed, <<"delete_password">>, v, fs)
    ELSE LET r == delete_index(st,
                      delete_password(v, st.service_name, vault_key(name)),
                      fs, name, fault)
         IN Result(r.status, r.error, r.ret, <<"delete_password">> \o r.trace,
                   r.vault, r.files)

delete(st, v, fs, name, fault) ==
    IF ~ValidName(name)
    THEN Fail("ValueError", NameEmpty, <<>>, v, fs)
    ELSE LET g == get(st, v, fs, name, fault)
         IN IF g.status # "ok"
            THEN Fail(g.status, g.error, g.trace, v, fs)
            ELSE IF g.ret = None
            THEN Outcome("ok", FALSE, g.trace, v, fs)
            ELSE IF fault = "delete_password"   \* the backend raised, entry kept
            THEN Fail("OSError", DeleteFailed, g.trace \o <<"delete_password">>, v, fs)
            ELSE LET r == delete_index(st,
                              delete_password(v, st.service_name, vault_key(name)),
                              fs, name, fault)
                 IN Result(r.status, r.error, r.ret,
                           g.trace \o <<"delete_password">> \o r.trace,
                           r.vault, r.files)

(***************************************************************************)
(* SecretsStore.list_names                                                 *)
(***************************************************************************)
\* variant: an index document that is not there is created, empty
list_names_create(st, v, fs, fault) ==
    LET l == _load_names(st, fs, fault)
    IN Result(l.status, l.error, IF l.status = "ok" THEN l.names ELSE None,
              l.trace, v,
              IF fs[st.metadata_file].kind = "absent"
              THEN [fs EXCEPT ![st.metadata_file] = dumps(<<>>)]
              ELSE fs)

list_names(st, v, fs, fault) ==
    LET l == _load_names(st, fs, fault)
    IN Result(l.status, l.error, IF l.status = "ok" THEN l.names ELSE None,
              l.trace, v, fs)

(***************************************************************************)
(* SecretsStore.export_env.  failAt is the number of the keyring read that *)
(* raises (0: none does).                                                  *)
(***************************************************************************)
EmptyDict == [n \in {} |-> None]

\* result[n] = v
setitem(result, n, val) == [m \in DOMAIN result \cup {n} |-> IF m = n THEN val ELSE result[m]]

\* `if v:` for v a str or None
truthy(val) == val # None /\ val # <<>>

\* variant: a name whose read fails is left out and the loop goes on
RECURSIVE export_loop_skip(_, _, _, _, _, _, _, _)
export_loop_skip(st, v, fs, names, i, result, trace, failAt) ==
    IF i > Len(names)
    THEN Outcome("ok", result, trace, v, fs)
    ELSE LET g == get(st, v, fs, names[i], IF i = failAt THEN "get_password" ELSE "none")
         IN export_loop_skip(st, v, fs, names, i + 1,
                             IF g.status = "ok" /\ truthy(g.ret)
                             THEN setitem(result, names[i], g.ret)
                             ELSE result,
                             trace \o g.trace, failAt)

RECURSIVE export_loop(_, _, _, _, _, _, _, _)
export_loop(st, v, fs, names, i, result, trace, failAt) ==
    IF i > Len(names)
    THEN Outcome("ok", result, trace, v, fs)
    ELSE LET g == get(st, v, fs, names[i], IF i = failAt THEN "get_password" ELSE "none")
         IN IF g.status # "ok"
            THEN Fail(g.status, g.error, trace \o g.trace, v, fs)
            ELSE export_loop(st, v, fs, names, i + 1,
                             IF truthy(g.ret) THEN setitem(result, names[i], g.ret)
                                              ELSE result,
                             trace \o g.trace, failAt)

export_env(st, v, fs, fault, failAt) ==
    LET l == _load_names(st, fs, fault)
    IN IF l.status # "ok"
       THEN Fail(l.status, l.error, l.trace, v, fs)
       ELSE export_loop(st, v, fs, l.names, 1, EmptyDict, l.trace, failAt)

(***************************************************************************)
(* Failures of the keyring and of the file system that a call can meet.    *)
(* A fault names the external call that raises; it has no effect when the  *)
(* operation does not reach that call.                                     *)
(***************************************************************************)
NoFault == "none"

SetFaults == {NoFault, "set_password", "set_password_stored", "read_text",
              "mkdir", "write_open", "write_partial", "chmod"}

GetFaults == {NoFault, "get_password"}

DeleteFaults == {NoFault, "get_password", "delete_password", "read_text",
                 "mkdir", "write_open", "write_partial", "chmod"}

ListFaults == {NoFault, "read_text"}

ExportFaults == {NoFault, "read_text", "get_password"}

(***************************************************************************)
(* The caller's ledger.  raw keeps the names as the caller spelled them,   *)
(* trimmed keeps them without surrounding whitespace.  Once a mutating     *)
(* call has failed the ledger is void.                                     *)
(***************************************************************************)
EmptyLedger ==
    [clean |-> TRUE, raw |-> [n \in Names |-> None], trimmed |-> [k \in Keys |-> None]]

VoidLedger == [EmptyLedger EXCEPT !.clean = FALSE]

Record(lg, name, val, status) ==
    IF status = "ValueError" \/ ~lg.clean
    THEN lg
    ELSE IF status # "ok"
    THEN VoidLedger
    ELSE [lg EXCEPT !.raw[name] = val, !.trimmed[strip(name)] = val]

(***************************************************************************)
(* Actions: one per public operation of the store.                         *)
(***************************************************************************)
Called(op, name, value, o) ==
    [op |-> op, name |-> name, value |-> value,
     status |-> o.status, error |-> o.error, ret |-> o.ret, trace |-> o.trace]

\* the index document of the store in use, after the call
IndexLen(o) == Len(o.files[store.metadata_file].names)

New(service_name) ==
    /\ store' = IF ValidServiceName(service_name)
                THEN SecretsStore(service_name) ELSE store
    /\ last' = [op |-> "init", name |-> service_name, value |-> None,
                status |-> IF ValidServiceName(service_name) THEN "ok" ELSE "ValueError",
                error |-> IF ValidServiceName(service_name) THEN NoError
                          ELSE ServiceNameEmpty,
                ret |-> None, trace |-> <<>>]
    /\ UNCHANGED <<vault, files, ledger, procs, cli, perms>>

Set(name, value, fault) ==
    \E o \in {set(store, vault, files, name, value, fault)} :
       /\ IndexLen(o) <= MaxIndex
       /\ vault' = o.vault
       /\ files' = o.files
       /\ last' = Called("set", name, value, o)
       /\ ledger' = Record(ledger, name, value, o.status)
       /\ UNCHANGED <<store, procs, cli, perms>>

Get(name, fault) ==
    \E o \in {get(store, vault, files, name, fault)} :
       /\ vault' = o.vault
       /\ files' = o.files
       /\ last' = Called("get", name, None, o)
       /\ UNCHANGED <<store, ledger, procs, cli, perms>>

Delete(name, fault) ==
    \E o \in {delete(store, vault, files, name, fault)} :
       /\ vault' = o.vault
       /\ files' = o.files
       /\ last' = Called("delete", name, None, o)
       /\ ledger' = IF o.status = "ok" /\ o.ret = FALSE
                     THEN ledger ELSE Record(ledger, name, None, o.status)
       /\ UNCHANGED <<store, procs, cli, perms>>

ListNames(fault) ==
    \E o \in {list_names(store, vault, files, fault)} :
       /\ vault' = o.vault
       /\ files' = o.files
       /\ last' = Called("list_names", None, None, o)
       /\ UNCHANGED <<store, ledger, procs, cli, perms>>

ExportEnv(fault, failAt) ==
    \E o \in {export_env(store, vault, files, fault,
                        IF fault = "get_password" THEN failAt ELSE 0)} :
       /\ vault' = o.vault
       /\ files' = o.files
       /\ last' = Called("export_env", None, None, o)
       /\ UNCHANGED <<store, ledger, procs, cli, perms>>

(***************************************************************************)
(* Two processes, each running one set call on its own name, in the        *)
(* steps of storage.py:100-108: the keyring write, the load of the index,  *)
(* and the write of the index, which opens (and so truncates) the file     *)
(* before it puts the text in.  pc is the step a process is to take next,  *)
(* names the list it has loaded and extended.                              *)
(***************************************************************************)
ProcIds == DOMAIN ProcNames

NoProcs == [i \in ProcIds |-> [pc |-> "set_password", value |-> None, names |-> <<>>]]

Proc(pc, value, names) == [pc |-> pc, value |-> value, names |-> names]

\* variant: the keyring write is skipped
SetPasswordSkipped(i, value) ==
    /\ procs[i].pc = "set_password"
    /\ procs' = [procs EXCEPT ![i] = Proc("load_names", value, <<>>)]
    /\ UNCHANGED <<vault, files, store, last, ledger, cli, perms>>

\* lines 100-101
SetPassword(i, value) ==
    /\ procs[i].pc = "set_password"
    /\ vault' = set_password(vault, store.service_name, vault_key(ProcNames[i]), value)
    /\ procs' = [procs EXCEPT ![i] = Proc("load_names", value, <<>>)]
    /\ UNCHANGED <<files, store, last, ledger, cli, perms>>

\* lines 105-107: a failed load ends the call with its exception
LoadNames(i) ==
    /\ procs[i].pc = "load_names"
    /\ \E l \in {_load_names(store, files, NoFault)} :
          procs' = [procs EXCEPT ![i] =
                       IF l.status # "ok"
                       THEN Proc(l.status, @.value, <<>>)
                       ELSE IF In(index_entry(ProcNames[i]), l.names)
                       THEN Proc("done", @.value, l.names)
                       ELSE Proc("write_open", @.value,
                                 Append(l.names, index_entry(ProcNames[i])))]
    /\ UNCHANGED <<vault, files, store, last, ledger, cli, perms>>

\* line 76: write_text opens the file for writing, which empties it
WriteOpen(i) ==
    /\ procs[i].pc = "write_open"
    /\ files' = [files EXCEPT ![store.metadata_file] = Doc("invalid_json", <<>>)]
    /\ procs' = [procs EXCEPT ![i].pc = "write_text"]
    /\ UNCHANGED <<vault, store, last, ledger, cli, perms>>

\* lines 76-79: the text is in the file, the call returns
WriteText(i) ==
    /\ procs[i].pc = "write_text"
    /\ files' = [files EXCEPT ![store.metadata_file] = dumps(procs[i].names)]
    /\ procs' = [procs EXCEPT ![i].pc = "done"]
    /\ UNCHANGED <<vault, store, last, ledger, cli, perms>>

(***************************************************************************)
(* The command line (secrets_cli/cli.py).  A command returns its exit      *)
(* code, what it printed, the last call it made on the store (call, none   *)
(* when it made no call) and the keyring and files it leaves.              *)
(*   out.msg     which message or document was printed                     *)
(*   out.json    whether it was printed as JSON                            *)
(*   out.name, out.value, out.names, out.exports   what it holds           *)
(***************************************************************************)
OutputFormat == {"json", "text", "table", "bash"}

Printed(msg, format, name, value, names, exports) ==
    [msg |-> msg, json |-> (format = "json"), name |-> name, value |-> value,
     names |-> names, exports |-> exports]

\* a message that holds no name, value or list
Message(msg, format) == Printed(msg, format, None, None, <<>>, EmptyDict)

NoCall ==
    [op |-> "none", name |-> None, value |-> None, status |-> "ok",
     error |-> NoError, ret |-> None, trace |-> <<>>]

Exit(code, out, call, v, fs) ==
    [exit |-> code, out |-> out, call |-> call, vault |-> v, files |-> fs]

\* except (ValueError, OSError): the error is printed, typer.Exit(1);
\* any other exception leaves the command with a traceback and exit code 1
Caught(o) == o.status \in {"ValueError", "OSError"}

ErrorExit(o, format, name, call) ==
    Exit(1, Printed(IF Caught(o) THEN o.error ELSE "traceback",
                    IF Caught(o) THEN format ELSE "text", name, None, <<>>, EmptyDict),
         call, o.vault, o.files)

\* def set (lines 63-93)
cli_set(st, v, fs, name, value, format, fault) ==
    LET o == set(st, v, fs, name, value, fault)
        call == Called("set", name, value, o)
    IN IF o.status # "ok"
       THEN ErrorExit(o, format, name, call)
       ELSE Exit(0, Printed("stored securely", format, name, None, <<>>, EmptyDict),
                 call, o.vault, o.files)

\* line 123
include_value(print_value, reveal, format) ==
    print_value \/ (reveal /\ format = "json")

\* variant: a secret that is not found is reported with exit code 0
cli_get_exit0(st, v, fs, name, print_value, reveal, format, fault) ==
    LET o == get(st, v, fs, name, fault)
        call == Called("get", name, None, o)
    IN IF o.status # "ok"
       THEN ErrorExit(o, format, name, call)
       ELSE IF o.ret = None
       THEN Exit(0, Printed("not found", format, name, None, <<>>, EmptyDict),
                 call, v, fs)
       ELSE IF format = "json"
       THEN Exit(0, Printed("exists", format, name,
                            IF include_value(print_value, reveal, format)
                            THEN o.ret ELSE None, <<>>, EmptyDict),
                 call, v, fs)
       ELSE IF print_value
       THEN Exit(0, Printed("value", format, name, o.ret, <<>>, EmptyDict), call, v, fs)
       ELSE Exit(0, Printed("exists, use --print", format, name, None, <<>>, EmptyDict),
                 call, v, fs)

\* variant: --reveal shows the value in every format
cli_get_reveal(st, v, fs, name, print_value, reveal, format, fault) ==
    LET o == get(st, v, fs, name, fault)
        call == Called("get", name, None, o)
    IN IF o.status # "ok"
       THEN ErrorExit(o, format, name, call)
       ELSE IF o.ret = None
       THEN Exit(1, Printed("not found", format, name, None, <<>>, EmptyDict),
                 call, v, fs)
       ELSE IF format = "json"
       THEN Exit(0, Printed("exists", format, name,
                            IF include_value(print_value, reveal, format)
                            THEN o.ret ELSE None, <<>>, EmptyDict),
                 call, v, fs)
       ELSE IF print_value \/ reveal
       THEN Exit(0, Printed("value", format, name, o.ret, <<>>, EmptyDict), call, v, fs)
       ELSE Exit(0, Printed("exists, use --print", format, name, None, <<>>, EmptyDict),
                 call, v, fs)

\* def get (lines 96-145)
cli_get(st, v, fs, name, print_value, reveal, format, fault) ==
    LET o == get(st, v, fs, name, fault)
        call == Called("get", name, None, o)
    IN IF o.status # "ok"
       THEN ErrorExit(o, format, name, call)
       ELSE IF o.ret = None
       THEN Exit(1, Printed("not found", format, name, None, <<>>, EmptyDict),
                 call, v, fs)
       ELSE IF format = "json"
       THEN Exit(0, Printed("exists", format, name,
                            IF include_value(print_value, reveal, format)
                            THEN o.ret ELSE None, <<>>, EmptyDict),
                 call, v, fs)
       ELSE IF print_value
       THEN Exit(0, Printed("value", format, name, o.ret, <<>>, EmptyDict), call, v, fs)
       ELSE Exit(0, Printed("exists, use --print", format, name, None, <<>>, EmptyDict),
                 call, v, fs)

\* def list (lines 148-179); the table has one row per name, sorted
cli_list(st, v, fs, format, fault) ==
    LET o == list_names(st, v, fs, fault)
        call == Called("list_names", None, None, o)
    IN IF o.status # "ok"
       THEN ErrorExit(o, format, None, call)
       ELSE IF format = "json"
       THEN Exit(0, Printed("secrets", format, None, None, o.ret, EmptyDict), call, v, fs)
       ELSE IF format = "table"
       THEN IF o.ret = <<>>
            THEN Exit(0, Message("No secrets stored", format), call, v, fs)
            ELSE Exit(0, Printed("table", format, None, None, o.ret, EmptyDict),
                      call, v, fs)
       ELSE Exit(0, Message("Unknown format", format), call, v, fs)

\* typer.confirm("Are you sure?", default=False): what the user answers
Answers == {"y", "n", "", "eof"}

\* variant: the confirmation is not asked for
cli_delete_unconfirmed(st, v, fs, name, yes, format, answer, fault) ==
    LET g == get(st, v, fs, name, IF fault = "get_password" THEN fault ELSE NoFault)
        gcall == Called("get", name, None, g)
    IN IF g.status # "ok"
       THEN ErrorExit(g, format, name, gcall)
       ELSE IF g.ret = None
       THEN Exit(1, Printed("not found", format, None, None, <<>>, EmptyDict),
                 gcall, v, fs)
       ELSE LET o == delete(st, v, fs, name,
                            CASE fault = "get_password" -> NoFault
                              [] fault = "get_password_delete" -> "get_password"
                              [] OTHER -> fault)
                call == Called("delete", name, None, o)
            IN IF o.status # "ok"
               THEN ErrorExit(o, format, name, call)
               ELSE Exit(0, Printed("deleted", format, name, None, <<>>, EmptyDict),
                         call, o.vault, o.files)

\* def delete (lines 182-232).  The fault "get_password" is the command's
\* own existence read failing, "get_password_delete" the read inside
\* store.delete.  An end of input at the prompt aborts the command.
cli_delete(st, v, fs, name, yes, format, answer, fault) ==
    LET g == get(st, v, fs, name, IF fault = "get_password" THEN fault ELSE NoFault)
        gcall == Called("get", name, None, g)
    IN IF g.status # "ok"
       THEN ErrorExit(g, format, name, gcall)
       ELSE IF g.ret = None
       THEN Exit(1, Printed("not found", format, None, None, <<>>, EmptyDict),
                 gcall, v, fs)
       ELSE IF ~yes /\ format = "json"
       THEN Exit(1, Message("Confirmation required. Use --yes to confirm deletion", format),
                 gcall, v, fs)
       ELSE IF ~yes /\ answer = "eof"
       THEN Exit(1, Message("Aborted!", format), gcall, v, fs)
       ELSE IF ~yes /\ answer # "y"
       THEN Exit(0, Message("Deletion cancelled", format), gcall, v, fs)
       ELSE LET o == delete(st, v, fs, name,
                            CASE fault = "get_password" -> NoFault
                              [] fault = "get_password_delete" -> "get_password"
                              [] OTHER -> fault)
                call == Called("delete", name, None, o)
            IN IF o.status # "ok"
               THEN ErrorExit(o, format, name, call)
               ELSE Exit(0, Printed("deleted", format, name, None, <<>>, EmptyDict),
                         call, o.vault, o.files)

\* def export (lines 235-262)
cli_export(st, v, fs, format, fault, failAt) ==
    LET o == export_env(st, v, fs, fault, failAt)
        call == Called("export_env", None, None, o)
    IN IF o.status # "ok"
       THEN ErrorExit(o, "json", None, call)
       ELSE IF format \in {"bash", "json"}
       THEN Exit(0, Printed("exports", format, None, None, <<>>, o.ret), call, v, fs)
       ELSE Exit(0, Message("Unknown format", format), call, v, fs)

\* def status (lines 265-300)
cli_status(st, v, fs, format, fault) ==
    LET o == list_names(st, v, fs, fault)
        call == Called("list_names", None, None, o)
    IN IF o.status # "ok"
       THEN ErrorExit(o, format, None, call)
       ELSE IF format \in {"json", "table"}
       THEN Exit(0, Printed("status", format, st.service_name, None, o.ret, EmptyDict),
                 call, v, fs)
       ELSE Exit(0, Message("Unknown format", format), call, v, fs)

\* def main (lines 41-60): the store the command works on, when there is one
main_ok(service_name, fault) == ValidServiceName(service_name) /\ fault # "base_dir"

(***************************************************************************)
(* One run of the command line: main, then the command.  When main ends    *)
(* the run (exit code 1) the command and its arguments are not looked at.  *)
(* r is what the command returns on the store that main constructed.       *)
(***************************************************************************)
MainFaults == {NoFault, "base_dir"}

Ran(cmd, name, format, yes, print_value, reveal, answer, r) ==
    [cmd |-> cmd, name |-> name, format |-> format, yes |-> yes,
     print_value |-> print_value, reveal |-> reveal, answer |-> answer,
     exit |-> r.exit, out |-> r.out]

CliMainExit(service_name, fault) ==
    /\ ~main_ok(service_name, fault)
    /\ cli' = Ran("main", None, "text", FALSE, FALSE, FALSE, "none",
                  Exit(1, Message(IF ValidServiceName(service_name)
                                  THEN "Parent directory does not exist"
                                  ELSE "service-name cannot be empty", "text"),
                       NoCall, vault, files))
    /\ UNCHANGED <<vault, files, store, last, ledger, procs, perms>>

Run(service_name, cmd, name, format, yes, print_value, reveal, answer, r) ==
    /\ main_ok(service_name, NoFault)
    /\ store' = SecretsStore(service_name)
    /\ vault' = r.vault
    /\ files' = r.files
    /\ last' = r.call
    /\ cli' = Ran(cmd, name, format, yes, print_value, reveal, answer, r)
    /\ UNCHANGED <<ledger, procs, perms>>

CliSet(service_name, name, value, format, fault) ==
    Run(service_name, "set", name, format, FALSE, FALSE, FALSE, "none",
        cli_set(SecretsStore(service_name), vault, files, name, value, format, fault))

CliGet(service_name, name, print_value, reveal, format, fault) ==
    Run(service_name, "get", name, format, FALSE, print_value, reveal, "none",
        cli_get(SecretsStore(service_name), vault, files, name, print_value, reveal,
                format, fault))

CliList(service_name, format, fault) ==
    Run(service_name, "list", None, format, FALSE, FALSE, FALSE, "none",
        cli_list(SecretsStore(service_name), vault, files, format, fault))

\* the answer counts only when the prompt is reached
CliDelete(service_name, name, yes, format, answer, fault) ==
    Run(service_name, "delete", name, format, yes, FALSE, FALSE, answer,
        cli_delete(SecretsStore(service_name), vault, files, name, yes, format,
                   answer, fault))

CliExport(service_name, format, fault, failAt) ==
    Run(service_name, "export", None, format, FALSE, FALSE, FALSE, "none",
        cli_export(SecretsStore(service_name), vault, files, format, fault, failAt))

CliStatus(service_name, format, fault) ==
    Run(service_name, "status", None, format, FALSE, FALSE, FALSE, "none",
        cli_status(SecretsStore(service_name), vault, files, format, fault))

(***************************************************************************)
(* No command has been run; no index write is in progress.                 *)
(***************************************************************************)
\* the namespaces of the migration and cleanup scripts
OldServiceName == <<"ai-keys">>

NewServiceName == <<"ai-secrets">>

(***************************************************************************)
(* migrate_service_name.py and cleanup_old_service.py.  A script run is    *)
(* [exit, out, call, vault, files] like a command of the command line: out *)
(* holds the names printed with a tick, call is the last store call made.  *)
(* Neither script catches an exception: a store call that raises ends the  *)
(* run with a traceback and exit code 1, whatever was done before stays.   *)
(* A fault is [at, call]: the store call of the at-th name that meets the  *)
(* failure (at = 0: the list_names before the loop), and the external call *)
(* that raises.                                                            *)
(***************************************************************************)
NoScriptFault == [at |-> 0, call |-> NoFault]

FaultAt(fault, i, calls) ==
    IF fault.at = i /\ fault.call \in calls THEN fault.call ELSE NoFault

Traceback(call, v, fs) == Exit(1, Message("traceback", "text"), call, v, fs)

ScriptDone(msg, names, call, v, fs) ==
    Exit(0, Printed(msg, "text", None, None, names, EmptyDict), call, v, fs)

\* variant: a name that is copied is removed from the old namespace
RECURSIVE migrate_loop_move(_, _, _, _, _, _, _)
migrate_loop_move(v, fs, names, i, migrated, call, fault) ==
    IF i > Len(names)
    THEN ScriptDone("Migrated", migrated, call, v, fs)
    ELSE LET g == get(SecretsStore(OldServiceName), v, fs, names[i],
                      FaultAt(fault, i, {"get_password"}))
         IN IF g.status # "ok"
            THEN Traceback(Called("get", names[i], None, g), v, fs)
            ELSE IF ~truthy(g.ret)
            THEN migrate_loop_move(v, fs, names, i + 1, migrated,
                                   Called("get", names[i], None, g), fault)
            ELSE LET s == set(SecretsStore(NewServiceName), v, fs, names[i], g.ret,
                              FaultAt(fault, i, SetFaults))
                     d == delete(SecretsStore(OldServiceName), s.vault, s.files,
                                 names[i], NoFault)
                 IN IF s.status # "ok"
                    THEN Traceback(Called("set", names[i], g.ret, s), s.vault, s.files)
                    ELSE migrate_loop_move(d.vault, d.files, names, i + 1,
                                           Append(migrated, names[i]),
                                           Called("set", names[i], g.ret, s), fault)

\* for name in old_secrets (lines 30-37)
RECURSIVE migrate_loop(_, _, _, _, _, _, _)
migrate_loop(v, fs, names, i, migrated, call, fault) ==
    IF i > Len(names)
    THEN ScriptDone("Migrated", migrated, call, v, fs)
    ELSE LET g == get(SecretsStore(OldServiceName), v, fs, names[i],
                      FaultAt(fault, i, {"get_password"}))
         IN IF g.status # "ok"
            THEN Traceback(Called("get", names[i], None, g), v, fs)
            ELSE IF ~truthy(g.ret)
            THEN migrate_loop(v, fs, names, i + 1, migrated,
                              Called("get", names[i], None, g), fault)
            ELSE LET s == set(SecretsStore(NewServiceName), v, fs, names[i], g.ret,
                              FaultAt(fault, i, SetFaults))
                 IN IF s.status # "ok"
                    THEN Traceback(Called("set", names[i], g.ret, s), s.vault, s.files)
                    ELSE migrate_loop(s.vault, s.files, names, i + 1,
                                      Append(migrated, names[i]),
                                      Called("set", names[i], g.ret, s), fault)

\* def migrate (lines 12-42)
migrate(v, fs, fault) ==
    LET l == list_names(SecretsStore(OldServiceName), v, fs,
                        FaultAt(fault, 0, {"read_text"}))
        call == Called("list_names", None, None, l)
    IN IF l.status # "ok"
       THEN Traceback(call, v, fs)
       ELSE IF l.ret = <<>>
       THEN ScriptDone("No secrets found", <<>>, call, v, fs)
       ELSE migrate_loop(v, fs, l.ret, 1, <<>>, call, fault)

\* input(): what the user types, or the end of the input
Responses == {"yes", "YES", "y", "", "eof"}

\* response.lower()
lower(response) == IF response = "YES" THEN "yes" ELSE response

\* for name in old_secrets (lines 37-42)
RECURSIVE cleanup_loop(_, _, _, _, _, _, _)
cleanup_loop(v, fs, names, i, deleted, call, fault) ==
    IF i > Len(names)
    THEN ScriptDone("Deleted", deleted, call, v, fs)
    ELSE LET d == delete(SecretsStore(OldServiceName), v, fs, names[i],
                         FaultAt(fault, i, DeleteFaults))
         IN IF d.status # "ok"
            THEN Traceback(Called("delete", names[i], None, d), d.vault, d.files)
            ELSE cleanup_loop(d.vault, d.files, names, i + 1,
                              IF d.ret THEN Append(deleted, names[i]) ELSE deleted,
                              Called("delete", names[i], None, d), fault)

\* def cleanup (lines 14-44)
cleanup(v, fs, response, fault) ==
    LET l == list_names(SecretsStore(OldServiceName), v, fs,
                        FaultAt(fault, 0, {"read_text"}))
        call == Called("list_names", None, None, l)
    IN IF l.status # "ok"
       THEN Traceback(call, v, fs)
       ELSE IF l.ret = <<>>
       THEN ScriptDone("No secrets found", <<>>, call, v, fs)
       ELSE IF response = "eof"
       THEN Traceback(call, v, fs)
       ELSE IF lower(response) # "yes"
       THEN ScriptDone("Cancelled", <<>>, call, v, fs)
       ELSE cleanup_loop(v, fs, l.ret, 1, <<>>, call, fault)

\* a run of a script; the store of the caller is not touched
Script(cmd, answer, r) ==
    /\ vault' = r.vault
    /\ files' = r.files
    /\ last' = r.call
    /\ cli' = Ran(cmd, None, "text", FALSE, FALSE, FALSE, answer, r)
    /\ UNCHANGED <<store, ledger, procs, perms>>

Migrate(fault) == Script("migrate", "none", migrate(vault, files, fault))

Cleanup(response, fault) ==
    Script("cleanup", response, cleanup(vault, files, response, fault))

NoCli ==
    [cmd |-> "none", name |-> None, format |-> "text", yes |-> FALSE,
     print_value |-> FALSE, reveal |-> FALSE, answer |-> "none",
     exit |-> 0, out |-> <<>>]

NoPerms ==
    [umask |-> {}, dir |-> [exists |-> FALSE, mode |-> {}],
     file |-> [exists |-> FALSE, mode |-> {}], pc |-> "idle", names |-> <<>>]

(***************************************************************************)
(* Initial states.                                                         *)
(***************************************************************************)
Constructed ==
    [op |-> "init", name |-> DefaultServiceName, value |-> None,
     status |-> "ok", error |-> NoError, ret |-> None, trace |-> <<>>]

\* a fresh namespace: empty keyring, no index document
Init ==
    /\ vault = [e \in Services \X Keys |-> None]
    /\ files = [p \in Paths |-> Absent]
    /\ store = SecretsStore(DefaultServiceName)
    /\ last = Constructed
    /\ ledger = EmptyLedger
    /\ procs = NoProcs
    /\ cli = NoCli
    /\ perms = NoPerms

\* name lists without repetition, of length at most 2, a document may hold
ValidNames == {n \in Names : ValidName(n)}

NameLists ==
    {<<>>} \cup {<<n>> : n \in ValidNames}
           \cup {<<n, m>> : <<n, m>> \in {q \in ValidNames \X ValidNames : q[1] # q[2]}}

IndexDocs ==
    {Absent}
    \cup {Doc(k, <<>>) : k \in {"scalar", "nokey", "nonobject", "invalid_json"}}
    \cup {Doc(k, ns) : k \in {"list", "dict"}, ns \in NameLists}

\* a namespace found in any condition: an index document written by an
\* earlier version, by hand, or damaged; a keyring changed by other tools
InitAny ==
    /\ \E held \in [{strip(n) : n \in ValidNames} -> Values \cup {None}] :
          vault = [e \in Services \X Keys |->
                      IF e[1] = DefaultServiceName /\ e[2] \in DOMAIN held
                      THEN held[e[2]] ELSE None]
    /\ \E doc \in IndexDocs :
          files = [p \in Paths |->
                      IF p = metadata_file(DefaultServiceName) THEN doc ELSE Absent]
    /\ store = SecretsStore(DefaultServiceName)
    /\ last = Constructed
    /\ ledger = VoidLedger
    /\ procs = NoProcs
    /\ cli = NoCli
    /\ perms = NoPerms

(***************************************************************************)
(* Specifications.                                                         *)
(***************************************************************************)
\* a fault is drawn only for calls that pass validation (a rejected call
\* reaches no external call), and a failing read number only for the fault
\* it belongs to
Next ==
    \/ \E s \in ServiceInputs : New(s)
    \/ \E n \in Names, v \in Values, f \in SetFaults :
          /\ (ValidName(n) /\ ValidValue(v)) \/ f = NoFault
          /\ Set(n, v, f)
    \/ \E n \in Names, f \in GetFaults :
          /\ ValidName(n) \/ f = NoFault
          /\ Get(n, f)
    \/ \E n \in Names, f \in DeleteFaults :
          /\ ValidName(n) \/ f = NoFault
          /\ Delete(n, f)
    \/ \E f \in ListFaults : ListNames(f)
    \/ \E f \in ExportFaults, k \in 1..MaxIndex :
          /\ f = "get_password" \/ k = 1
          /\ ExportEnv(f, k)

\* every external call succeeds
NextNoFault ==
    \/ \E s \in ServiceInputs : New(s)
    \/ \E n \in Names, v \in Values : Set(n, v, NoFault)
    \/ \E n \in Names : Get(n, NoFault)
    \/ \E n \in Names : Delete(n, NoFault)
    \/ ListNames(NoFault)
    \/ ExportEnv(NoFault, 0)

Spec == Init /\ [][Next]_vars

SpecNoFault == Init /\ [][NextNoFault]_vars

SpecAny == InitAny /\ [][Next]_vars

TypeOK ==
    /\ vault \in [Services \X Keys -> Values \cup {None}]
    /\ \A p \in Paths : files[p].kind \in
           {"absent", "list", "dict", "scalar", "nokey", "nonobject", "invalid_json"}
    /\ store.service_name \in Services
    /\ last.status \in {"ok", "ValueError", "OSError", "AttributeError"}

(***************************************************************************)
(* What a caller observes in a state when no external call fails.          *)
(***************************************************************************)
Value(name) == get(store, vault, files, name, NoFault).ret

Listing == list_names(store, vault, files, NoFault)

Index == files[store.metadata_file]

\* the same observations in the state a step leads to
ValueAfter(name) == get(store', vault', files', name, NoFault).ret

ListingAfter == list_names(store', vault', files', NoFault)

Padded(name) == ValidName(name) /\ strip(name) # name

(***************************************************************************)
(* C1: after a set(name, value) that returned, for a name that is          *)
(* non-empty after trimming (surrounding whitespace allowed) and a         *)
(* non-empty value, get(name) returns exactly value and list_names()       *)
(* holds name exactly once.                                                *)
(***************************************************************************)
C1_SetThenGetAndListed ==
    (last.op = "set" /\ last.status = "ok") =>
        /\ ValidName(last.name) /\ last.value # <<>>
        /\ Value(last.name) = last.value
        /\ Listing.status = "ok"
        /\ count(Listing.ret, last.name) = 1

\* a set of a name with surrounding whitespace has returned, with another
\* name already listed
C1_Witness ==
    /\ last.op = "set" /\ last.status = "ok"
    /\ Padded(last.name)
    /\ Index.kind = "list" /\ Len(Index.names) = 2

(***************************************************************************)
(* C2: delete(name) of a name whose value get reports as present (in any   *)
(* spelling get accepts) returns true when it returns; afterwards          *)
(* get(name) is absent and name is not in list_names().                    *)
(***************************************************************************)
C2_DeletePresent ==
    [][ ( /\ last'.op = "delete"
          /\ ValidName(last'.name)
          /\ Value(last'.name) # None
          /\ last'.status = "ok" )
        => ( /\ last'.ret = TRUE
             /\ ValueAfter(last'.name) = None
             /\ ListingAfter.status = "ok"
             /\ ~In(last'.name, ListingAfter.ret) ) ]_vars

\* a delete has returned true and rewritten the index without the name
C2_Witness ==
    /\ last.op = "delete" /\ last.status = "ok" /\ last.ret = TRUE
    /\ In("write_text", last.trace)
    /\ Value(last.name) = None
    /\ Index.kind = "list" /\ Len(Index.names) = 1

(***************************************************************************)
(* C3: delete(name) of a name with no value in the vault returns false,    *)
(* raises nothing (unless the vault read itself fails), never calls the    *)
(* vault's remove and leaves the index document and the vault unchanged.   *)
(***************************************************************************)
C3_DeleteAbsent ==
    [][ ( /\ last'.op = "delete"
          /\ ValidName(last'.name)
          /\ Value(last'.name) = None )
        => ( /\ files' = files
             /\ vault' = vault
             /\ ~In("delete_password", last'.trace)
             /\ last'.trace = <<"get_password">>
             /\ last'.status \in {"ok", "OSError"}
             /\ last'.status = "ok" => last'.ret = FALSE ) ]_vars

\* delete has returned false for a name the index still lists
C3_Witness ==
    /\ last.op = "delete" /\ last.status = "ok" /\ last.ret = FALSE
    /\ Listing.status = "ok" /\ In(last.name, Listing.ret)

(***************************************************************************)
(* C4: a set(name, v2) that returns right after a set(name, v1) that       *)
(* returned does not write the index document, leaves name exactly once    *)
(* in the index, and get(name) returns v2.                                 *)
(***************************************************************************)
C4_SetTwice ==
    [][ ( /\ last.op = "set" /\ last.status = "ok"
          /\ last'.op = "set" /\ last'.status = "ok"
          /\ last'.name = last.name )
        => ( /\ files' = files
             /\ ~In("write_text", last'.trace)
             /\ ~In("mkdir", last'.trace)
             /\ count(ListingAfter.ret, last'.name) = 1
             /\ ValueAfter(last'.name) = last'.value ) ]_vars

\* a set has returned without writing the index, its name being listed
C4_Witness ==
    /\ last.op = "set" /\ last.status = "ok"
    /\ last.trace = <<"set_password", "exists", "read_text">>
    /\ count(Listing.ret, last.name) = 1
    /\ Value(last.name) = last.value

(***************************************************************************)
(* C5: after successful set and delete calls on a fresh namespace,         *)
(* export_env() is exactly the mapping from each name set and not later    *)
(* deleted to its latest value (names taken as the caller spelled them, or *)
(* taken without surrounding whitespace); on a fresh namespace             *)
(* list_names() is empty and export_env() is the empty mapping.            *)
(***************************************************************************)
ExpectedRaw ==
    [n \in {m \in Names : ledger.raw[m] # None} |-> ledger.raw[n]]

ExpectedTrimmed ==
    [k \in {m \in Keys : ledger.trimmed[m] # None} |-> ledger.trimmed[k]]

C5_ExportIsLedger ==
    /\ (ledger.clean /\ last.op = "export_env" /\ last.status = "ok")
           => (last.ret = ExpectedRaw \/ last.ret = ExpectedTrimmed)
    /\ (ledger = EmptyLedger /\ last.op = "list_names" /\ last.status = "ok")
           => last.ret = <<>>

(***************************************************************************)
(* C6: in every state reached by store operations, the set of names in     *)
(* the index equals the set of names that have a value in the vault.       *)
(***************************************************************************)
IndexNameSet ==
    IF Listing.status = "ok" THEN {Listing.ret[i] : i \in DOMAIN Listing.ret} ELSE {}

VaultNameSet == {k \in Keys : vault[<<store.service_name, k>>] # None}

C6_IndexEqualsVault == IndexNameSet = VaultNameSet

(***************************************************************************)
(* C7: whatever the index document is (missing, empty, lacking the name,   *)
(* listing it, damaged), get(name) returns the vault's value for the name  *)
(* or None when there is none, fails only when the vault read fails, and   *)
(* makes no call other than the vault read.                                *)
(***************************************************************************)
C7_GetReadsVaultOnly ==
    (last.op = "get" /\ ValidName(last.name)) =>
        /\ last.trace = <<"get_password">>
        /\ last.status \in {"ok", "OSError"}
        /\ last.status = "ok" =>
               last.ret = vault[<<store.service_name, strip(last.name)>>]

\* get returned a value although the index is damaged or does not list the name
C7_Witness ==
    /\ last.op = "get" /\ last.status = "ok" /\ last.ret # None
    /\ \/ Index.kind \in {"invalid_json", "nonobject", "absent"}
       \/ Index.kind = "list" /\ ~In(last.name, Index.names)

(***************************************************************************)
(* C8: an empty or whitespace-only namespace (constructor), name (set,     *)
(* get, delete) or value (set) is refused with a validation error before   *)
(* any vault or file-system call, leaving vault, index and store as they   *)
(* were.                                                                   *)
(***************************************************************************)
Blank(s) == strip(s) = <<>>

Rejected ==
    /\ last'.status = "ValueError"
    /\ last'.trace = <<>>
    /\ UNCHANGED <<vault, files, store>>

IndexCalls == {"exists", "read_text", "mkdir", "write_text", "chmod"}

VaultFailed(l) ==
    \/ l.op = "set" /\ l.error = StoreFailed
    \/ l.op = "delete" /\ l.error = DeleteFailed

C11_VaultFailureSkipsIndex ==
    [][VaultFailed(last') =>
          /\ last'.status = "OSError"
          /\ files' = files
          /\ \A i \in 1..Len(last'.trace) : last'.trace[i] \notin IndexCalls
          /\ last'.trace = IF last'.op = "set" THEN <<"set_password">>
                           ELSE <<"get_password", "delete_password">>
          /\ last'.op = "delete" => vault' = vault]_vars

\* a delete whose keyring removal failed while the name is listed in the index
C11_Witness ==
    /\ last.op = "delete" /\ last.error = DeleteFailed
    /\ Index.kind = "list" /\ In(last.name, Index.names)
    /\ Value(last.name) # None

(***************************************************************************)
(* C12: when _save_names fails at any step (creating the directory,        *)
(* writing the text, setting the permissions) the index file holds exactly *)
(* the content it held before the call.                                    *)
(***************************************************************************)
SaveFailed(l) == l.error \in {MkdirFailed, WriteFailed}

C12_SaveFailureKeepsIndex ==
    [][SaveFailed(last') => files' = files]_vars

(***************************************************************************)
(* C13: an index whose `secrets` is a mapping (the legacy form) is read as *)
(* exactly its keys, without error; every write of the index that the      *)
(* Store completes from then on, in set or in delete, stores `secrets` as  *)
(* a sequence and keeps every name that the call did not delete.           *)
(***************************************************************************)
LegacyReadAsKeys ==
    Index.kind = "dict" =>
        /\ Listing.status = "ok"
        /\ Listing.ret = Index.names
        /\ last.op = "list_names" /\ last.error # ReadFailed =>
               last.status = "ok" /\ last.ret = Index.names

\* the write ran to its end: the file holds a whole document
WriteCompleted == files' # files /\ Index'.kind # "invalid_json"

WritesSequenceForm ==
    Index.kind \in {"dict", "list"} /\ WriteCompleted =>
        /\ last'.op \in {"set", "delete"}
        /\ Index'.kind = "list"
        /\ \A i \in 1..Len(Index.names) :
               (last'.op = "delete" /\ Index.names[i] = last'.name)
                   \/ In(Index.names[i], Index'.names)

C13_LegacyIndex == []LegacyReadAsKeys /\ [][WritesSequenceForm]_vars

\* list_names has just returned the two keys of a legacy index
C13_Witness ==
    /\ last.op = "list_names" /\ last.status = "ok"
    /\ Index.kind = "dict" /\ Len(Index.names) = 2
    /\ last.ret = Index.names

(***************************************************************************)
(* Round trip of the index: self._save_names(self._load_names()).          *)
(***************************************************************************)
save_loaded(st, v, fs, fault) ==
    LET l == _load_names(st, fs, fault)
    IN IF l.status # "ok"
       THEN Fail(l.status, l.error, l.trace, v, fs)
       ELSE LET s == _save_names(st, fs, l.names, fault)
            IN Result(s.status, s.error, None, l.trace \o s.trace, v, s.files)

SaveFaults == {NoFault, "read_text", "mkdir", "write_open", "write_partial", "chmod"}

SaveLoaded(fault) ==
    \E o \in {save_loaded(store, vault, files, fault)} :
       /\ vault' = o.vault
       /\ files' = o.files
       /\ last' = Called("save_loaded", None, None, o)
       /\ UNCHANGED <<store, ledger, procs, cli, perms>>

NextRoundTrip ==
    \/ \E fault \in SaveFaults : SaveLoaded(fault)
    \/ \E name \in ValidNames, value \in Values : Set(name, value, NoFault)
    \/ \E name \in ValidNames : Delete(name, NoFault)
    \/ ListNames(NoFault)

SpecRoundTrip == InitAny /\ [][NextRoundTrip]_vars

Exists(doc) == doc.kind # "absent"

C15_IndexLifecycle ==
    [][/\ ~Exists(Index) /\ Exists(Index') =>
              last'.op = "set" /\ last'.status = "ok"
       /\ Exists(Index) => Exists(Index')
       /\ (/\ last'.op = "delete" /\ last'.status = "ok"
           /\ Index.kind = "list" /\ Index.names = <<last'.name>>) =>
              Index' = Doc("list", <<>>)]_vars

(***************************************************************************)
(* Stores of several namespaces over one base directory: the caller        *)
(* constructs a store for a namespace and works with it.                   *)
(***************************************************************************)
NextNamespaces ==
    \/ \E s \in NamespaceInputs \cup {DefaultServiceName} : New(s)
    \/ \E n \in ValidNames, v \in Values : Set(n, v, NoFault)
    \/ \E n \in ValidNames : Get(n, NoFault)
    \/ \E n \in ValidNames : Delete(n, NoFault)
    \/ ListNames(NoFault)
    \/ ExportEnv(NoFault, 0)

SpecNamespaces == Init /\ [][NextNamespaces]_vars

\* what get, list_names and export_env return in namespace s
Observe(s, v, fs) ==
    [get         |-> [n \in ValidNames |-> get(SecretsStore(s), v, fs, n, NoFault).ret],
     list_names  |-> list_names(SecretsStore(s), v, fs, NoFault).ret,
     export_env  |-> export_env(SecretsStore(s), v, fs, NoFault, 0).ret]

(***************************************************************************)
(* C16: stores of different (trimmed) namespaces over one base directory   *)
(* use different index files, and an operation on one namespace leaves     *)
(* what get, list_names and export_env return in every other namespace as  *)
(* it was, also when the two namespaces differ only in a path separator    *)
(* against an underscore.                                                  *)
(***************************************************************************)
C16_NamespacesIsolated ==
    [][\A s \in Services :
          s # store.service_name /\ store' = store =>
              /\ SecretsStore(s).metadata_file # store.metadata_file
              /\ Observe(s, vault', files') = Observe(s, vault, files)]_vars

(***************************************************************************)
(* Two set calls running concurrently in one namespace.                    *)
(***************************************************************************)
NextConcurrent ==
    \/ \E i \in ProcIds, v \in {w \in Values : ValidValue(w)} : SetPassword(i, v)
    \/ \E i \in ProcIds : LoadNames(i)
    \/ \E i \in ProcIds : WriteOpen(i)
    \/ \E i \in ProcIds : WriteText(i)

SpecConcurrent == Init /\ [][NextConcurrent]_vars

(***************************************************************************)
(* C17: two processes that run set concurrently on different names in one  *)
(* namespace can end with both values in the vault and only one of the     *)
(* names in the index; in every interleaving, once a process has made its  *)
(* vault write, get of its name returns the value it set.                  *)
(***************************************************************************)
C17_GetSeesConcurrentSet ==
    \A i \in ProcIds :
        procs[i].pc # "set_password" => Value(ProcNames[i]) = procs[i].value

\* both calls have returned, both values are held, one name is listed
C17_Witness ==
    /\ \A i \in ProcIds : procs[i].pc = "done" /\ Value(ProcNames[i]) = procs[i].value
    /\ Index.kind = "list" /\ Len(Index.names) = 1

(***************************************************************************)
(* C18: the name recorded in the index is the trimmed name under which the *)
(* value is stored in the vault: after any sequence of operations every    *)
(* name in the index has no surrounding whitespace (set and delete use one *)
(* key for the vault and for the index).                                   *)
(***************************************************************************)
C18_IndexNamesTrimmed ==
    \A i \in 1..Len(Index.names) :
        /\ strip(Index.names[i]) = Index.names[i]
        /\ index_entry(Index.names[i]) = vault_key(Index.names[i])

(***************************************************************************)
(* C19: export_env() contains a name if and only if the name is in the     *)
(* index and the vault read for it returns a present value, and maps the   *)
(* name to that value: names without a vault entry are left out without an *)
(* error, and no name with a present value is left out.                    *)
(***************************************************************************)
Present(names) == {names[i] : i \in {j \in 1..Len(names) : Value(names[j]) # None}}

Held(name) == vault[<<store.service_name, strip(name)>>]

C20_AbsentIsNotFailure ==
    /\ \A n \in ValidNames :
          /\ get(store, vault, files, n, NoFault).status = "ok"
          /\ get(store, vault, files, n, NoFault).ret = Held(n)
          /\ get(store, vault, files, n, "get_password").status = "OSError"
          /\ get(store, vault, files, n, "get_password").error = RetrieveFailed
    /\ last.op = "get" /\ ValidName(last.name) =>
          \/ last.status = "ok" /\ last.error = NoError /\ last.ret = Held(last.name)
          \/ last.status = "OSError" /\ last.error = RetrieveFailed

\* the vault read of a name that has a value failed
C20_Witness ==
    /\ last.op = "get" /\ last.error = RetrieveFailed
    /\ ValidName(last.name) /\ Held(last.name) # None

(***************************************************************************)
(* Runs of the command line on a fresh namespace.                          *)
(***************************************************************************)
\* the arguments given on the command line
CliServiceInputs == {<<>>, DefaultServiceName}

CliNames == {<<>>, <<Word[1]>>, <<Space, Word[1], Space>>}

CliValues == {<<>>, <<Digit[1]>>}

CliDeleteFaults == DeleteFaults \cup {"get_password_delete"}

\* a fault is drawn only for a run that reaches the call, an answer only
\* for a run that can reach the prompt
NextCli ==
    \/ \E s \in CliServiceInputs, mf \in MainFaults : CliMainExit(s, mf)
    \/ \E n \in CliNames, v \in CliValues, fmt \in {"json", "text"}, f \in SetFaults :
          /\ (ValidName(n) /\ ValidValue(v)) \/ f = NoFault
          /\ CliSet(DefaultServiceName, n, v, fmt, f)
    \/ \E n \in CliNames, p \in BOOLEAN, r \in BOOLEAN, fmt \in {"json", "text"},
          f \in GetFaults :
          /\ ValidName(n) \/ f = NoFault
          /\ CliGet(DefaultServiceName, n, p, r, fmt, f)
    \/ \E fmt \in {"json", "table", "text"}, f \in ListFaults :
          CliList(DefaultServiceName, fmt, f)
    \/ \E n \in CliNames, y \in BOOLEAN, fmt \in {"json", "text"},
          a \in Answers \cup {"none"}, f \in CliDeleteFaults :
          /\ ValidName(n) \/ f = NoFault
          /\ a = "none" <=> (y \/ fmt = "json")
          /\ (y \/ a = "y") \/ f \in {NoFault, "get_password"}
          /\ CliDelete(DefaultServiceName, n, y, fmt, a, f)
    \/ \E fmt \in {"bash", "json", "text"}, f \in ExportFaults,
          k \in 1..Cardinality(CliNames) :
          /\ f = "get_password" \/ k = 1
          /\ CliExport(DefaultServiceName, fmt, f, IF f = "get_password" THEN k ELSE 0)
    \/ \E fmt \in {"json", "table", "text"}, f \in ListFaults :
          CliStatus(DefaultServiceName, fmt, f)

SpecCli == Init /\ [][NextCli]_vars

(***************************************************************************)
(* What the latest run of the command line did.                            *)
(***************************************************************************)
\* the store call the command is for returned (and, for get, found a value)
Succeeded ==
    CASE cli.cmd = "set"    -> last.op = "set" /\ last.status = "ok"
      [] cli.cmd = "get"    -> last.op = "get" /\ last.status = "ok" /\ last.ret # None
      [] cli.cmd = "delete" -> last.op = "delete" /\ last.status = "ok"
      [] cli.cmd = "list"   -> last.op = "list_names" /\ last.status = "ok"
      [] cli.cmd = "status" -> last.op = "list_names" /\ last.status = "ok"
      [] cli.cmd = "export" -> last.op = "export_env" /\ last.status = "ok"
      [] OTHER              -> FALSE

\* get or delete found no value for the name
NotFound ==
    /\ cli.cmd \in {"get", "delete"}
    /\ last.op = "get" /\ last.status = "ok" /\ last.ret = None

\* delete found the value, and --yes was not given
Unconfirmed ==
    /\ cli.cmd = "delete" /\ ~cli.yes
    /\ last.op = "get" /\ last.status = "ok" /\ last.ret # None

\* the user answered the prompt, and not with yes
Declined == Unconfirmed /\ cli.answer \in {"n", ""}

\* the prompt was answered with yes
Accepted == cli.cmd = "delete" /\ ~cli.yes /\ cli.format # "json" /\ cli.answer = "y"

(***************************************************************************)
(* C21: every command ends with exit code 0 exactly when its operation     *)
(* succeeded, and with exit code 1 on a surfaced error, on a secret that   *)
(* is not found (get, delete) and when the user declines the delete        *)
(* confirmation; a declined or unconfirmed delete removes nothing.         *)
(***************************************************************************)
C21_ExitCodes ==
    [][cli'.cmd # "none" =>
          /\ cli'.exit \in {0, 1}
          /\ cli'.exit = 0 <=> Succeeded'
          /\ NotFound' => cli'.exit = 1
          /\ Unconfirmed' => cli'.exit = 1 /\ vault' = vault /\ files' = files]_vars

(***************************************************************************)
(* C21 as amended: a command ends with exit code 0 when its operation      *)
(* succeeded and when the user declines the interactive delete             *)
(* confirmation, and with exit code 1 otherwise: on a surfaced error, on a *)
(* secret that is not found, on a delete in JSON format without --yes and  *)
(* on a prompt that is aborted; a declined or unconfirmed delete removes   *)
(* nothing.                                                                *)
(***************************************************************************)
C21_Amended ==
    [][cli'.cmd # "none" =>
          /\ cli'.exit \in {0, 1}
          /\ cli'.exit = 0 <=> (Succeeded' \/ Declined')
          /\ NotFound' => cli'.exit = 1
          /\ Unconfirmed' => vault' = vault /\ files' = files
          /\ Unconfirmed' /\ ~Declined' => cli'.exit = 1]_vars

\* the user has declined the deletion of a stored secret
C21_Witness ==
    /\ Declined /\ cli.exit = 0
    /\ Value(cli.name) # None

(***************************************************************************)
(* What test_init_default and test_init_custom expect of a store.          *)
(***************************************************************************)
ExpectedDefaultServiceName == <<"ai-keys">>

ExpectedMetadataFile == <<"metadata.json">>

(***************************************************************************)
(* C22: a store constructed without arguments uses the namespace           *)
(* "ai-keys", and whatever the namespace, the index document of a store is *)
(* the file metadata.json directly under the base directory.               *)
(***************************************************************************)
C22_DefaultStore ==
    /\ SecretsStore(DefaultServiceName).service_name = ExpectedDefaultServiceName
    /\ store.metadata_file = ExpectedMetadataFile
    /\ \A s \in Services : SecretsStore(s).metadata_file = ExpectedMetadataFile

(***************************************************************************)
(* Permissions.  A mode is the set of its permission bits; a new directory *)
(* or file gets the mode asked for less the bits of the process umask.     *)
(***************************************************************************)
Owner == {"ur", "uw", "ux"}

Group == {"gr", "gw", "gx"}

Other == {"or", "ow", "ox"}

\* 0o700, the mode _setup_dirs asks for
DirMode == Owner

\* 0o600, the mode _save_names sets
FileMode == {"ur", "uw"}

\* 0o666, the mode open() asks for when it creates a file
OpenMode == {"ur", "uw", "gr", "gw", "or", "ow"}

\* umask 0o022 and 0o077
Umasks == {{"gw", "ow"}, Group \cup Other}

\* modes a directory or file made by other means can have: 0o755, 0o644
FoundDirModes == {DirMode, Owner \cup {"gr", "gx", "or", "ox"}}

FoundFileModes == {FileMode, {"ur", "uw", "gr", "or"}}

Node(exists, mode) == [exists |-> exists, mode |-> mode]

\* Path.mkdir(mode=0o700, exist_ok=True)
mkdir(dir, umask) == IF dir.exists THEN dir ELSE Node(TRUE, DirMode \ umask)

\* Path.write_text: open(path, "w")
write_text(file, umask) == IF file.exists THEN file ELSE Node(TRUE, OpenMode \ umask)

\* Path.chmod(0o600)
chmod(file) == Node(TRUE, FileMode)

(***************************************************************************)
(* A set call that adds a name to the index, in the steps that change the  *)
(* permissions: up to and including _setup_dirs (lines 100-107, 75), then  *)
(* write_text (76-78), then chmod (79).                                    *)
(***************************************************************************)
SetUntilMkdir(name, value) ==
    /\ perms.pc \in {"idle", "done"}
    /\ \E l \in {_load_names(store, files, NoFault)} :
          /\ l.status = "ok"
          /\ ~In(index_entry(name), l.names)
          /\ Len(l.names) < MaxIndex
          /\ perms' = [perms EXCEPT !.pc = "write_text",
                                    !.names = Append(l.names, index_entry(name)),
                                    !.dir = mkdir(perms.dir, perms.umask)]
    /\ vault' = set_password(vault, store.service_name, vault_key(name), value)
    /\ UNCHANGED <<files, store, last, ledger, procs, cli>>

SaveWriteText ==
    /\ perms.pc = "write_text"
    /\ files' = [files EXCEPT ![store.metadata_file] = dumps(perms.names)]
    /\ perms' = [perms EXCEPT !.pc = "chmod",
                              !.file = write_text(perms.file, perms.umask)]
    /\ UNCHANGED <<vault, store, last, ledger, procs, cli>>

SaveChmod ==
    /\ perms.pc = "chmod"
    /\ perms' = [perms EXCEPT !.pc = "done", !.file = chmod(perms.file)]
    /\ UNCHANGED <<vault, files, store, last, ledger, procs, cli>>

\* the base directory and the index file as found: not there, made by the
\* store before, or made by other means
InitPerms ==
    /\ vault = [e \in Services \X Keys |-> None]
    /\ store = SecretsStore(DefaultServiceName)
    /\ last = Constructed
    /\ ledger = EmptyLedger
    /\ procs = NoProcs
    /\ cli = NoCli
    /\ \E u \in Umasks, d \in {Node(FALSE, {})} \cup {Node(TRUE, dm) : dm \in FoundDirModes},
          f \in {Node(FALSE, {})} \cup {Node(TRUE, fm) : fm \in FoundFileModes} :
          /\ f.exists => d.exists
          /\ perms = [umask |-> u, dir |-> d, file |-> f, pc |-> "idle", names |-> <<>>]
          /\ files = [p \in Paths |->
                         IF p = metadata_file(DefaultServiceName) /\ f.exists
                         THEN dumps(<<>>) ELSE Absent]

NextPerms ==
    \/ \E n \in ValidNames, v \in {w \in Values : ValidValue(w)} : SetUntilMkdir(n, v)
    \/ SaveWriteText
    \/ SaveChmod

SpecPerms == InitPerms /\ [][NextPerms]_vars

(***************************************************************************)
(* C23: after every index write that succeeds the index file has mode 0600 *)
(* and its directory mode 0700, also when the directory or the file was    *)
(* there before with another mode, and the file the store has written is   *)
(* at no point to be seen with a wider mode.                               *)
(***************************************************************************)
C23_OwnerOnly ==
    /\ perms.pc = "done" => perms.file.mode = FileMode /\ perms.dir.mode = DirMode
    /\ perms.pc = "chmod" => perms.file.mode \subseteq FileMode


(***************************************************************************)
(* C24  export_env hides no failure.  In every state, an export_env whose  *)
(* index cannot be loaded (the read fails, or the document is damaged)     *)
(* ends with the error of the load, and one whose k-th keyring read fails  *)
(* ends with that read's error: in both cases nothing is returned, no      *)
(* mapping of the names read so far, the index was read at most once and   *)
(* the keyring exactly k times, so no call was made again.  The same holds *)
(* of the export_env calls made.                                           *)
(***************************************************************************)
Calls(trace, call) == Cardinality({i \in DOMAIN trace : trace[i] = call})

C24_ExportPropagates ==
    /\ last.op = "export_env" /\ last.status # "ok"
          => last.ret = None /\ last.error # NoError
    /\ \A f \in ExportFaults, k \in 1..MaxIndex :
          LET l == _load_names(store, files, f)
              e == export_env(store, vault, files, f, IF f = "get_password" THEN k ELSE 0)
          IN /\ l.status # "ok"
                   => /\ e.status = l.status /\ e.error = l.error
                      /\ e.ret = None
                      /\ e.trace = l.trace
             /\ l.status = "ok" /\ f = "get_password" /\ k <= Len(l.names)
                   => /\ e.status = "OSError" /\ e.error = RetrieveFailed
                      /\ e.ret = None
                      /\ Calls(e.trace, "get_password") = k
                      /\ Calls(e.trace, "read_text") <= 1
             /\ l.status = "ok" /\ ~(f = "get_password" /\ k <= Len(l.names))
                   => e.status = "ok"

\* an export_env whose second keyring read failed, after a first that did not
C24_Witness ==
    /\ last.op = "export_env"
    /\ last.error = RetrieveFailed
    /\ last.ret = None
    /\ Calls(last.trace, "get_password") = 2


(***************************************************************************)
(* C25: a run of the delete command removes a keyring value or changes the *)
(* index only when the deletion was confirmed, by --yes or by the answer   *)
(* yes to the prompt of a format other than JSON; in JSON format without   *)
(* --yes, a secret that is there is left alone, keyring and index as they  *)
(* were, and the run says that a confirmation is required.                 *)
(***************************************************************************)
ConfirmationRequired == "Confirmation required. Use --yes to confirm deletion"

C25_DeleteConfirmed ==
    [][cli'.cmd = "delete" =>
          /\ (vault' # vault \/ files' # files) => (cli'.yes \/ Accepted')
          /\ (/\ ~cli'.yes /\ cli'.format = "json"
              /\ Value(cli'.name) # None
              /\ last'.error # RetrieveFailed)
                => /\ cli'.out.msg = ConfirmationRequired
                   /\ cli'.exit = 1
                   /\ vault' = vault /\ files' = files]_vars

\* delete in JSON format without --yes, of a secret that is stored
C25_Witness ==
    /\ cli.cmd = "delete" /\ ~cli.yes /\ cli.format = "json"
    /\ cli.out.msg = ConfirmationRequired
    /\ Value(cli.name) # None


(***************************************************************************)
(* C26: the get command shows the value only on request.  In every state,  *)
(* for every name and any two values the keyring may hold for it, the two  *)
(* runs of get print the same and end with the same exit code unless       *)
(* --print is given, or --reveal together with JSON format; so --reveal in *)
(* another format shows nothing of the value.  When the value is asked     *)
(* for, it is what is printed.  The same holds of the runs made.           *)
(***************************************************************************)
\* values a keyring may hold, also ones set refuses
StoredValues == {<<Digit[1]>>, <<Digit[2]>>, <<Space, Digit[1]>>, <<>>}

Holding(name, value) ==
    [vault EXCEPT ![<<store.service_name, vault_key(name)>>] = value]

C26_ValueOnRequest ==
    /\ \A n \in {m \in CliNames : ValidName(m)}, p \in BOOLEAN, r \in BOOLEAN,
          fmt \in {"json", "text"}, v1 \in StoredValues, v2 \in StoredValues :
          LET g1 == cli_get(store, Holding(n, v1), files, n, p, r, fmt, NoFault)
              g2 == cli_get(store, Holding(n, v2), files, n, p, r, fmt, NoFault)
          IN IF p \/ (r /\ fmt = "json")
             THEN g1.exit = 0 /\ g1.out.value = v1
             ELSE g1.exit = g2.exit /\ g1.out = g2.out
    /\ (cli.cmd = "get" /\ ~(cli.print_value \/ (cli.reveal /\ cli.format = "json")))
          => cli.out.value = None

\* get --reveal in text format of a secret that is stored
C26_Witness ==
    /\ cli.cmd = "get" /\ cli.reveal /\ ~cli.print_value /\ cli.format = "text"
    /\ cli.exit = 0
    /\ Value(cli.name) # None
    /\ cli.out.value = None


(***************************************************************************)
(* The two scripts on an old namespace found in any condition (made by an  *)
(* earlier version or changed by other tools) and a new namespace that the *)
(* caller works with through the store.                                    *)
(***************************************************************************)
\* names and values of the two namespaces; a value that is the empty
\* string can be in the keyring through another keyring client only
ScriptNames == {<<Word[1]>>, <<Space, Word[1], Space>>}

ScriptValues == {<<>>, <<Digit[1]>>}

ScriptLists ==
    {<<>>} \cup {<<n>> : n \in ScriptNames}
           \cup {<<n, m>> : <<n, m>> \in {q \in ScriptNames \X ScriptNames : q[1] # q[2]}}

ScriptDocs ==
    {Absent, Doc("invalid_json", <<>>)}
    \cup {Doc(k, ns) : k \in {"list", "dict"}, ns \in ScriptLists}

InitScripts ==
    /\ \E held \in ScriptValues \cup {None} :
          vault = [e \in {OldServiceName, NewServiceName} \X Keys |->
                      IF e = <<OldServiceName, <<Word[1]>>>> THEN held ELSE None]
    /\ \E doc \in ScriptDocs :
          files = [p \in {metadata_file(OldServiceName), metadata_file(NewServiceName)} |->
                      IF p = metadata_file(OldServiceName) THEN doc ELSE Absent]
    /\ store = SecretsStore(NewServiceName)
    /\ last = Constructed
    /\ ledger = VoidLedger
    /\ procs = NoProcs
    /\ cli = NoCli
    /\ perms = NoPerms

\* a failure in list_names, or at the store call of the k-th name: of the
\* keyring, or of the index write (before it, or in the middle of it)
MigrateFaults ==
    {NoScriptFault, [at |-> 0, call |-> "read_text"]}
    \cup {[at |-> k, call |-> c] :
             k \in 1..Cardinality(ScriptNames),
             c \in {"get_password", "set_password", "mkdir", "write_partial"}}

CleanupFaults ==
    {NoScriptFault, [at |-> 0, call |-> "read_text"]}
    \cup {[at |-> k, call |-> c] :
             k \in 1..Cardinality(ScriptNames),
             c \in {"get_password", "delete_password", "mkdir", "write_partial"}}

\* the caller works with the new namespace, and runs migrate
NextMigrate ==
    \/ \E n \in ScriptNames, v \in {w \in ScriptValues : ValidValue(w)} :
          Set(n, v, NoFault)
    \/ \E n \in ScriptNames : Delete(n, NoFault)
    \/ \E f \in MigrateFaults : Migrate(f)

SpecMigrate == InitScripts /\ [][NextMigrate]_vars

\* the caller runs migrate, and cleanup; a failure is drawn only for a
\* cleanup that is confirmed
NextScripts ==
    \/ \E f \in MigrateFaults : Migrate(f)
    \/ \E r \in Responses, f \in CleanupFaults :
          /\ lower(r) = "yes" \/ f.at = 0
          /\ Cleanup(r, f)

SpecScripts == InitScripts /\ [][NextScripts]_vars

\* the index document and the keyring entries of a namespace
IndexOf(s, fs) == fs[metadata_file(s)]

EntriesOf(s, v) == [k \in Keys |-> v[<<s, k>>]]

\* the names list_names returns in the old namespace, <<>> when it raises
OldNames ==
    LET l == list_names(SecretsStore(OldServiceName), vault, files, NoFault)
    IN IF l.status = "ok" THEN l.ret ELSE <<>>

OldValue(name) == vault[<<OldServiceName, strip(name)>>]

\* the step is a run of the script: keyring, files, exit code and output
\* are what the script makes of the state before
IsRun(cmd, r) ==
    /\ cli'.cmd = cmd
    /\ cli'.exit = r.exit /\ cli'.out = r.out
    /\ vault' = r.vault /\ files' = r.files

MigrateRun == \E f \in MigrateFaults : IsRun("migrate", migrate(vault, files, f))

CleanupRun ==
    \E r \in Responses, f \in CleanupFaults :
       cli'.answer = r /\ IsRun("cleanup", cleanup(vault, files, r, f))

(***************************************************************************)
(* C27: migration copies and does not move.  After a run of migrate that   *)
(* completes, every name the old namespace listed with a value that can be *)
(* read (one that is there and not the empty string, the test the script   *)
(* makes) has that value in the new namespace (get), is listed there       *)
(* exactly once and is reported as migrated; a name without such a value   *)
(* is skipped: it is not reported, and nothing is set for it unless        *)
(* another listed name with the same key is copied; the keyring entries    *)
(* and the index of the old namespace are as they were.                    *)
(***************************************************************************)
C27_MigrationCopies ==
    [][MigrateRun /\ cli'.exit = 0 =>
          /\ \A i \in 1..Len(OldNames) :
                LET n == OldNames[i]
                    l == list_names(SecretsStore(NewServiceName), vault', files', NoFault)
                IN IF truthy(OldValue(n))
                   THEN /\ get(SecretsStore(NewServiceName), vault', files', n,
                               NoFault).ret = OldValue(n)
                        /\ l.status = "ok" /\ Calls(l.ret, n) = 1
                        /\ In(n, cli'.out.names)
                   ELSE ~In(n, cli'.out.names)
          /\ cli'.out.names = <<>>
                => /\ EntriesOf(NewServiceName, vault') = EntriesOf(NewServiceName, vault)
                   /\ IndexOf(NewServiceName, files') = IndexOf(NewServiceName, files)
          /\ EntriesOf(OldServiceName, vault') = EntriesOf(OldServiceName, vault)
          /\ IndexOf(OldServiceName, files') = IndexOf(OldServiceName, files)]_vars

\* migrate has copied a value: both namespaces hold it and list the name,
\* the new one through the set call the run ended with
C27_Witness ==
    /\ cli.cmd = "migrate" /\ cli.exit = 0
    /\ cli.out.names # <<>>
    /\ last.op = "set" /\ last.value = OldValue(last.name)
    /\ truthy(OldValue(last.name))
    /\ vault[<<NewServiceName, strip(last.name)>>] = OldValue(last.name)
    /\ In(last.name, OldNames)
    /\ In(last.name, Listing.ret)


(***************************************************************************)
(* C28: cleanup deletes all and only the old namespace.  After a run of    *)
(* cleanup that is confirmed with yes and completes, no name the old       *)
(* namespace listed has a value in the keyring there and the old index     *)
(* lists none of them; with any other answer keyring and files are as they *)
(* were; and in every case the keyring entries and the index of the new    *)
(* namespace are as they were.                                             *)
(***************************************************************************)
C28_CleanupDeletesOld ==
    [][CleanupRun =>
          /\ (lower(cli'.answer) = "yes" /\ cli'.exit = 0) =>
                \A i \in 1..Len(OldNames) :
                   LET l == list_names(SecretsStore(OldServiceName), vault', files',
                                       NoFault)
                   IN /\ vault'[<<OldServiceName, strip(OldNames[i])>>] = None
                      /\ l.status = "ok" /\ ~In(OldNames[i], l.ret)
          /\ lower(cli'.answer) # "yes" => vault' = vault /\ files' = files
          /\ EntriesOf(NewServiceName, vault') = EntriesOf(NewServiceName, vault)
          /\ IndexOf(NewServiceName, files') = IndexOf(NewServiceName, files)]_vars


(***************************************************************************)
(* C29: a stale index entry cannot be cleared by delete.  A name that is   *)
(* listed and has no value in the keyring is stale.  delete of a stale     *)
(* name changes neither keyring nor index, and returns false when it       *)
(* returns; a listed name leaves the index only in a delete of that name   *)
(* that finds a value and removes it; and a stale name that stays listed   *)
(* comes by a value only in a set on its key.  So a stale name is listed   *)
(* until a set gives it a value again and a delete of the name follows.    *)
(***************************************************************************)
\* a namespace found in any condition: set, delete with every failure it
\* can meet, get and list_names
NextStale ==
    \/ \E n \in ValidNames, v \in {w \in Values : ValidValue(w)} : Set(n, v, NoFault)
    \/ \E n \in ValidNames, f \in DeleteFaults : Delete(n, f)
    \/ \E n \in ValidNames : Get(n, NoFault)
    \/ ListNames(NoFault)

SpecStale == InitAny /\ [][NextStale]_vars

Listed(name) == Listing.status = "ok" /\ In(name, Listing.ret)

Stale(name) == Listed(name) /\ Held(name) = None

\* the names list_names returns, none when it raises
ListedNames(l) == IF l.status = "ok" THEN {l.ret[i] : i \in 1..Len(l.ret)} ELSE {}

HeldAfter(name) == vault'[<<store.service_name, strip(name)>>]

Pos(names, x) == CHOOSE i \in 1..Len(names) : names[i] = x

NextReads ==
    \/ \E n \in Names, f \in GetFaults :
          /\ ValidName(n) \/ f = NoFault
          /\ Get(n, f)
    \/ \E f \in ListFaults : ListNames(f)
    \/ \E f \in ExportFaults, k \in 1..MaxIndex :
          /\ f = "get_password" \/ k = 1
          /\ ExportEnv(f, k)
    \/ \E n \in ValidNames, v \in {w \in Values : ValidValue(w)} : Set(n, v, NoFault)
    \/ \E n \in ValidNames : Delete(n, NoFault)

SpecReads == InitAny /\ [][NextReads]_vars

\* the external calls that read
ReadCalls == {"exists", "read_text", "get_password"}

(***************************************************************************)
(* C31: read operations have no effect.  A get, list_names or export_env,  *)
(* whether it returns or raises, leaves every keyring entry and every      *)
(* index document as it was, absent or with the content it had, and makes  *)
(* no external call but the ones that read.                                *)
(***************************************************************************)
C31_ReadsHaveNoEffect ==
    [][last'.op \in {"get", "list_names", "export_env"} =>
          /\ vault' = vault
          /\ files' = files
          /\ \A i \in 1..Len(last'.trace) : last'.trace[i] \in ReadCalls]_vars

\* an export_env has raised at a keyring read in a namespace that holds a
\* value and lists names
C31_Witness ==
    /\ last.op = "export_env" /\ last.status = "OSError"
    /\ Index.kind = "list" /\ Index.names # <<>>
    /\ \E n \in ValidNames : Held(n) # None
====
